---------------------------- MODULE Spec2Model ----------------------------
(***************************************************************************)
(* Commission models (core/strategy/trading/trading_commition.py), the     *)
(* order life cycle of StrategyBase and the trade and asset record         *)
(* managers (core/strategy/trading/common.py).                             *)
(* create_log (common/logger.py), calculate_holdings                       *)
(* (core/visualization/visual_tools_plotly.py) and scrape_trades           *)
(* (x/find_trades.py).                                                     *)
(*                                                                         *)
(* Money is exact decimal arithmetic: an amount is [w, f], w whole         *)
(* currency units and f billionths of a unit (0 <= f < 10^9).  Prices are  *)
(* in cents, proportional rates in units of 10^-7, per-share rates in      *)
(* units of 10^-9, so every product of the fee schedules is an exact       *)
(* number of billionths.                                                   *)
(***************************************************************************)
EXTENDS Integers, Sequences, FiniteSets, TLC

VARIABLES
    market,                 \* identifier handed to CommissionFactory.get_commission
    comminfo,               \* the commission model the factory returned
    warnings,               \* number of logger.warning calls of the factory
    call,                   \* the latest _getcommission call: arguments and result
    prevCall,               \* the call before it, on the same model
    order,                  \* StrategyBase.order: 0 is None, else the order's index
    buy_signals_count,
    sell_signals_count,
    executed_buys_count,
    executed_sells_count,
    trade_records,          \* TradeRecordManager.trade_records
    asset_records,          \* AssetRecordManager.asset_records
    orders,                 \* the broker's orders: <<[status, ordtype]>>
    ticks,                  \* number of trading periods processed
    notifications,          \* number of notify_order calls processed
    completed,              \* number of them whose status was Completed
    commission_calls,       \* number of calculate_commission calls
    event,                  \* the operation that produced this state
    rcall,                  \* the latest call on a record manager: its date
                            \* argument and the error it raised
    exported,               \* the table the latest transform_to_dataframe returned
    trade_reports,          \* the profit reports notify_trade logged: <<[pnl, pnlcomm]>>
    adds,                   \* add calls that returned without an error, per manager
    log_handlers,           \* logging: name |-> logger.handlers, as indices of handler_pool
    handler_pool,           \* every handler object created: <<[kind, logger, closed]>>
    emitted,                \* the sinks the latest logger.info call wrote to
    hcall,                  \* the latest calculate_holdings call: arguments and result
    scraper                 \* scrape_trades: its position, locals, browser and output

vars == <<market, comminfo, warnings, call, prevCall, order,
          buy_signals_count, sell_signals_count, executed_buys_count,
          executed_sells_count, trade_records, asset_records, orders, ticks,
          notifications, completed, commission_calls, event, rcall, exported,
          trade_reports, adds, log_handlers, handler_pool, emitted, hcall,
          scraper>>

strategyVars == <<order, buy_signals_count, sell_signals_count,
                  executed_buys_count, executed_sells_count, trade_records,
                  asset_records, orders, ticks, notifications, completed,
                  commission_calls, event, rcall, exported, trade_reports,
                  adds>>

\* the state outside the strategy, its broker and its record managers
extraVars == <<log_handlers, handler_pool, emitted, hcall, scraper>>

\* everything but the two record managers
nonRecordVars == <<market, comminfo, warnings, call, prevCall, order,
                   buy_signals_count, sell_signals_count, executed_buys_count,
                   executed_sells_count, orders, ticks, notifications,
                   completed, commission_calls, event, trade_reports>>

----------------------------------------------------------------------------
(* Bounds of the model.                                                    *)

\* how many entries of SizeLadder / PriceLadder the commission calls draw from
NSizes == 6
NPrices == 3
\* the strategy: trading periods, orders the broker holds
MaxTicks == 2
MaxOrders == 2
\* closed trades the broker reports
MaxTrades == 1
\* the record managers: records held by the two lists together
MaxRecords == 2
\* create_log calls
MaxLogCalls == 4
\* calculate_holdings: dates of df_continuous.index, rows of valid_trades
NDays == 3
MaxHoldingTrades == 2
\* scrape_trades: pages the site has, the largest max_pages argument
MaxSitePages == 3
MaxPagesArg == 2

\* |size| in shares: around the US floor (202/203 shares), the US activity-fee
\* cap (50000 shares) and, with the prices below, the HK thresholds
SizeLadder == <<1, 200, 203, 1000, 50000, 60000, 100, 70000>>
\* price in cents: 0.01, 100.00, 25.00, 1.00, 300.00
PriceLadder == <<1, 10000, 2500, 100, 30000>>

Sizes == {SizeLadder[i] : i \in 1..NSizes} \cup {-SizeLadder[i] : i \in 1..NSizes}
Prices == {PriceLadder[i] : i \in 1..NPrices}

Markets == {"HK", "US", "CN", "JP", "hk"}

----------------------------------------------------------------------------
(* Exact money arithmetic.                                                 *)

Nano == 1000 * 1000 * 1000

Money(w, f) == [w |-> w, f |-> f]

MZero == Money(0, 0)

MAdd(a, b) ==
    [w |-> a.w + b.w + ((a.f + b.f) \div Nano), f |-> (a.f + b.f) % Nano]

MLt(a, b) == a.w < b.w \/ (a.w = b.w /\ a.f < b.f)

MLeq(a, b) == a = b \/ MLt(a, b)

\* Python's max(a, b) and min(a, b)
MMax(a, b) == IF MLt(a, b) THEN b ELSE a

MMin(a, b) == IF MLt(b, a) THEN b ELSE a

\* x * m billionths as Money, for 0 <= x < 2^31 and 0 <= m <= 5000000,
\* by limbs of 1000 so that no intermediate product leaves 32 bits
MulScaled(x, m) ==
    LET xa == x \div 1000000
        xb == (x \div 1000) % 1000
        xc == x % 1000
        mh == m \div 1000
        ml == m % 1000
        t9 == xa * mh
        t6 == xa * ml + xb * mh
        t3 == xb * ml + xc * mh
        t0 == xc * ml
        fr == (t6 % 1000) * 1000000 + (t3 % 1000000) * 1000 + t0
    IN  [w |-> t9 + (t6 \div 1000) + (t3 \div 1000000) + (fr \div Nano),
         f |-> fr % Nano]

\* Python's abs
Abs(n) == IF n < 0 THEN -n ELSE n

----------------------------------------------------------------------------
(* HKCommission.params (the defaults; settings.py is not part of src/).    *)

HK_commission == 3000                      \* 0.0003
HK_mincommission == Money(3, 0)
HK_stamp_duty == 10000                     \* 0.001
HK_transaction_levy == 420                 \* 0.000042
HK_transaction_fee == 565                  \* 0.0000565
HK_trading_system_fee == Money(15, 0)
HK_settlement_fee == 200                   \* 0.00002
HK_min_settlement_fee == Money(2, 0)
HK_max_settlement_fee == Money(100, 0)

(* CNCommission.params *)

CN_commission == 3000                      \* 0.0003
CN_mincommission == Money(3, 0)
CN_stamp_duty == 2500                      \* 0.00025
CN_transaction_levy == 341                 \* 0.0000341
CN_transaction_fee == 200                  \* 0.00002
CN_trading_system_fee == Money(15, 0)
CN_settlement_fee == 200                   \* 0.00002

(* USCommission.params *)

US_commission_per_share == 4900000         \* 0.0049 per share
US_min_commission == Money(0, 990000000)   \* 0.99
US_max_commission_rate == 50000            \* 0.005
US_min_trading_system_per_share == 5000000 \* 0.005 per share
US_max_trading_system_rate == 50000        \* 0.005
US_min_trading_system_fee == Money(1, 0)
US_settlement_fee == 300                    \* 0.00003
US_settlement_activity_fee_per_share == 166000      \* 0.000166 per share
US_min_settlement_activity_fee == Money(0, 5000000) \* 0.005
US_max_settlement_activity_fee == Money(8, 300000000) \* 8.30
US_comprehensive_audit_supervision_fee == Money(0, 26500) \* 0.0000265

----------------------------------------------------------------------------
(* The three _getcommission methods.  size is signed shares, price cents.  *)

\* the commission without its floor
HK_getcommission_no_floor(size, price, pseudoexec) ==
    LET value == Abs(size) * price
        commission == MulScaled(value, HK_commission)
        stamp_duty == MulScaled(value, HK_stamp_duty)
        transaction_levy == MulScaled(value, HK_transaction_levy)
        transaction_fee == MulScaled(value, HK_transaction_fee)
        settlement_fee == MMax(MMin(MulScaled(value, HK_settlement_fee),
                                    HK_max_settlement_fee),
                               HK_min_settlement_fee)
    IN  MAdd(MAdd(MAdd(MAdd(MAdd(commission, stamp_duty), transaction_levy),
                       transaction_fee), HK_trading_system_fee), settlement_fee)

\* the transaction fee left out of the sum
HK_getcommission_no_fee(size, price, pseudoexec) ==
    LET value == Abs(size) * price
        commission == MMax(MulScaled(value, HK_commission), HK_mincommission)
        stamp_duty == MulScaled(value, HK_stamp_duty)
        transaction_levy == MulScaled(value, HK_transaction_levy)
        settlement_fee == MMax(MMin(MulScaled(value, HK_settlement_fee),
                                    HK_max_settlement_fee),
                               HK_min_settlement_fee)
    IN  MAdd(MAdd(MAdd(MAdd(commission, stamp_duty), transaction_levy),
                  HK_trading_system_fee), settlement_fee)

\* the settlement fee floored but never capped
HK_getcommission_no_cap(size, price, pseudoexec) ==
    LET value == Abs(size) * price
        commission == MMax(MulScaled(value, HK_commission), HK_mincommission)
        stamp_duty == MulScaled(value, HK_stamp_duty)
        transaction_levy == MulScaled(value, HK_transaction_levy)
        transaction_fee == MulScaled(value, HK_transaction_fee)
        settlement_fee == MMax(MulScaled(value, HK_settlement_fee),
                               HK_min_settlement_fee)
    IN  MAdd(MAdd(MAdd(MAdd(MAdd(commission, stamp_duty), transaction_levy),
                       transaction_fee), HK_trading_system_fee), settlement_fee)

HK_getcommission(size, price, pseudoexec) ==
    LET value == Abs(size) * price
        commission == MMax(MulScaled(value, HK_commission), HK_mincommission)
        stamp_duty == MulScaled(value, HK_stamp_duty)
        transaction_levy == MulScaled(value, HK_transaction_levy)
        transaction_fee == MulScaled(value, HK_transaction_fee)
        settlement_fee == MMax(MMin(MulScaled(value, HK_settlement_fee),
                                    HK_max_settlement_fee),
                               HK_min_settlement_fee)
    IN  MAdd(MAdd(MAdd(MAdd(MAdd(commission, stamp_duty), transaction_levy),
                       transaction_fee), HK_trading_system_fee), settlement_fee)

\* stamp duty charged on sells only
CN_getcommission_sell_duty(size, price, pseudoexec) ==
    LET value == Abs(size) * price
        commission == MMax(MulScaled(value, CN_commission), CN_mincommission)
        stamp_duty == IF size < 0 THEN MulScaled(value, 2 * CN_stamp_duty)
                                  ELSE MZero
        transaction_levy == MulScaled(value, CN_transaction_levy)
        transaction_fee == MulScaled(value, CN_transaction_fee)
        settlement_fee == MulScaled(value, CN_settlement_fee)
    IN  MAdd(MAdd(MAdd(MAdd(MAdd(commission, stamp_duty), transaction_levy),
                       transaction_fee), CN_trading_system_fee), settlement_fee)

\* the settlement fee clamped as in the HK model
CN_getcommission_clamped(size, price, pseudoexec) ==
    LET value == Abs(size) * price
        commission == MMax(MulScaled(value, CN_commission), CN_mincommission)
        stamp_duty == MulScaled(value, CN_stamp_duty)
        transaction_levy == MulScaled(value, CN_transaction_levy)
        transaction_fee == MulScaled(value, CN_transaction_fee)
        settlement_fee == MMax(MMin(MulScaled(value, CN_settlement_fee),
                                    HK_max_settlement_fee),
                               HK_min_settlement_fee)
    IN  MAdd(MAdd(MAdd(MAdd(MAdd(commission, stamp_duty), transaction_levy),
                       transaction_fee), CN_trading_system_fee), settlement_fee)

CN_getcommission(size, price, pseudoexec) ==
    LET value == Abs(size) * price
        commission == MMax(MulScaled(value, CN_commission), CN_mincommission)
        stamp_duty == MulScaled(value, CN_stamp_duty)
        transaction_levy == MulScaled(value, CN_transaction_levy)
        transaction_fee == MulScaled(value, CN_transaction_fee)
        settlement_fee == MulScaled(value, CN_settlement_fee)
    IN  MAdd(MAdd(MAdd(MAdd(MAdd(commission, stamp_duty), transaction_levy),
                       transaction_fee), CN_trading_system_fee), settlement_fee)

\* the cap never applied
US_commission_part_no_cap(size, price) ==
    LET commission == MulScaled(Abs(size), US_commission_per_share)
    IN  IF MLt(commission, US_min_commission) THEN US_min_commission
                                              ELSE commission

\* the floor applied first and the cap after it, whatever the floor gave
US_commission_part_cap_last(size, price) ==
    LET value == Abs(size) * price
        commission == MMax(MulScaled(Abs(size), US_commission_per_share),
                           US_min_commission)
    IN  MMin(commission, MulScaled(value, US_max_commission_rate))

US_commission_part(size, price) ==
    LET value == Abs(size) * price
        commission == MulScaled(Abs(size), US_commission_per_share)
    IN  IF MLt(commission, US_min_commission)
        THEN US_min_commission
        ELSE IF MLt(MulScaled(value, US_max_commission_rate), commission)
             THEN MulScaled(value, US_max_commission_rate)
             ELSE commission

US_trading_system_part(size, price) ==
    LET value == Abs(size) * price
        trading_system_fee == MulScaled(Abs(size), US_min_trading_system_per_share)
    IN  IF MLt(trading_system_fee, US_min_trading_system_fee)
        THEN US_min_trading_system_fee
        ELSE IF MLt(MulScaled(value, US_max_trading_system_rate), trading_system_fee)
             THEN MulScaled(value, US_max_trading_system_rate)
             ELSE trading_system_fee

US_settlement_activity_part(size) ==
    LET settlement_activity_fee ==
            MulScaled(Abs(size), US_settlement_activity_fee_per_share)
    IN  IF MLt(settlement_activity_fee, US_min_settlement_activity_fee)
        THEN US_min_settlement_activity_fee
        ELSE IF MLt(US_max_settlement_activity_fee, settlement_activity_fee)
             THEN US_max_settlement_activity_fee
             ELSE settlement_activity_fee

\* the proportional settlement_fee parameter charged as a fifth component
US_getcommission_with_settlement(size, price, pseudoexec) ==
    MAdd(MAdd(MAdd(MAdd(US_commission_part(size, price),
                        US_trading_system_part(size, price)),
                   US_settlement_activity_part(size)),
              US_comprehensive_audit_supervision_fee),
         MulScaled(Abs(size) * price, US_settlement_fee))

\* nothing charged for a simulated execution
US_getcommission_pseudo_free(size, price, pseudoexec) ==
    IF pseudoexec THEN MZero
    ELSE MAdd(MAdd(MAdd(US_commission_part(size, price),
                        US_trading_system_part(size, price)),
                   US_settlement_activity_part(size)),
              US_comprehensive_audit_supervision_fee)

US_getcommission(size, price, pseudoexec) ==
    MAdd(MAdd(MAdd(US_commission_part(size, price),
                   US_trading_system_part(size, price)),
              US_settlement_activity_part(size)),
         US_comprehensive_audit_supervision_fee)

\* comminfo._getcommission(size, price, pseudoexec) by the model's class
Getcommission(model, size, price, pseudoexec) ==
    CASE model = "HKCommission" -> HK_getcommission(size, price, pseudoexec)
      [] model = "CNCommission" -> CN_getcommission(size, price, pseudoexec)
      [] model = "USCommission" -> US_getcommission(size, price, pseudoexec)

----------------------------------------------------------------------------
(* CommissionFactory.get_commission: the class returned and whether the    *)
(* warning is logged.                                                      *)

\* the fall-back returning the CN model
get_commission_cn_default(m) ==
    IF m = "HK" THEN [model |-> "HKCommission", warn |-> FALSE]
    ELSE IF m = "US" THEN [model |-> "USCommission", warn |-> FALSE]
    ELSE IF m = "CN" THEN [model |-> "CNCommission", warn |-> FALSE]
    ELSE [model |-> "CNCommission", warn |-> TRUE]

get_commission(m) ==
    IF m = "HK" THEN [model |-> "HKCommission", warn |-> FALSE]
    ELSE IF m = "US" THEN [model |-> "USCommission", warn |-> FALSE]
    ELSE IF m = "CN" THEN [model |-> "CNCommission", warn |-> FALSE]
    ELSE [model |-> "HKCommission", warn |-> TRUE]

----------------------------------------------------------------------------
(* Dates and the records of the two managers.                              *)
(*                                                                         *)
(* A date argument is [type, ymd, s]: the Python type of the value, the    *)
(* calendar date it holds (date, datetime, Timestamp), and the characters  *)
(* of a str.  A pandas Timestamp is [nat, ymd, tod]: NaT or a calendar     *)
(* date with the seconds since midnight.                                   *)

\* cash the back-test starts with; the value of every asset snapshot here
init_cash == 5000000

DateValue(y, m, d) == [type |-> "date", ymd |-> <<y, m, d>>, s |-> <<>>]

StrValue(chars) == [type |-> "str", ymd |-> <<0, 0, 0>>, s |-> chars]

OtherValue(type, y, m, d) == [type |-> type, ymd |-> <<y, m, d>>, s |-> <<>>]

S_2024_01_15 == <<"2", "0", "2", "4", "-", "0", "1", "-", "1", "5">>
S_2024_02_29 == <<"2", "0", "2", "4", "-", "0", "2", "-", "2", "9">>
S_2024_02_30 == <<"2", "0", "2", "4", "-", "0", "2", "-", "3", "0">>
S_not_a_date == <<"n", "o", "t", "-", "a", "-", "d", "a", "t", "e">>
S_empty == <<>>

\* the date arguments the managers are called with
DateInputs ==
    { DateValue(2024, 1, 15),
      StrValue(S_2024_01_15), StrValue(S_2024_02_29), StrValue(S_2024_02_30),
      StrValue(S_not_a_date), StrValue(S_empty),
      OtherValue("int", 0, 0, 0), OtherValue("NoneType", 0, 0, 0),
      OtherValue("datetime", 2024, 1, 15), OtherValue("Timestamp", 2024, 1, 15) }

\* the action, signal_type, shares and total_assets arguments
ActionInputs == {"B", "X"}
SignalTypeInputs == {"normal_buy"}
SharesInputs == {200, 0}
TotalAssetsInputs == {init_cash}

NaT == [nat |-> TRUE, ymd |-> <<0, 0, 0>>, tod |-> 0]

NoRecord == [date |-> NaT]

IsLeap(y) == (y % 4 = 0 /\ y % 100 # 0) \/ y % 400 = 0

DaysInMonth(y, m) ==
    IF m = 2 THEN (IF IsLeap(y) THEN 29 ELSE 28)
    ELSE IF m \in {4, 6, 9, 11} THEN 30 ELSE 31

IsDigit(c) == c \in {"0", "1", "2", "3", "4", "5", "6", "7", "8", "9"}

DigitVal(c) ==
    CASE c = "0" -> 0 [] c = "1" -> 1 [] c = "2" -> 2 [] c = "3" -> 3
      [] c = "4" -> 4 [] c = "5" -> 5 [] c = "6" -> 6 [] c = "7" -> 7
      [] c = "8" -> 8 [] c = "9" -> 9

\* the year, month and day fields swapped to year, day, month
Timestamp_from_str_day_first(chars) ==
    IF Len(chars) = 0 THEN [raised |-> "None", ts |-> NaT]
    ELSE IF /\ Len(chars) = 10
            /\ chars[5] = "-" /\ chars[8] = "-"
            /\ \A i \in {1, 2, 3, 4, 6, 7, 9, 10} : IsDigit(chars[i])
    THEN LET y == DigitVal(chars[1]) * 1000 + DigitVal(chars[2]) * 100
                  + DigitVal(chars[3]) * 10 + DigitVal(chars[4])
             d == DigitVal(chars[6]) * 10 + DigitVal(chars[7])
             m == DigitVal(chars[9]) * 10 + DigitVal(chars[10])
         IN  IF m \in 1..12 /\ d \in 1..DaysInMonth(y, m)
             THEN [raised |-> "None",
                   ts |-> [nat |-> FALSE, ymd |-> <<y, m, d>>, tod |-> 0]]
             ELSE [raised |-> "ValueError", ts |-> NaT]
    ELSE [raised |-> "ValueError", ts |-> NaT]

\* pd.Timestamp(str): the empty string is NaT, an ISO 8601 calendar date
\* YYYY-MM-DD is that day at midnight, and a string that is neither (of the
\* strings above) makes the parser raise a ValueError
Timestamp_from_str(chars) ==
    IF Len(chars) = 0 THEN [raised |-> "None", ts |-> NaT]
    ELSE IF /\ Len(chars) = 10
            /\ chars[5] = "-" /\ chars[8] = "-"
            /\ \A i \in {1, 2, 3, 4, 6, 7, 9, 10} : IsDigit(chars[i])
    THEN LET y == DigitVal(chars[1]) * 1000 + DigitVal(chars[2]) * 100
                  + DigitVal(chars[3]) * 10 + DigitVal(chars[4])
             m == DigitVal(chars[6]) * 10 + DigitVal(chars[7])
             d == DigitVal(chars[9]) * 10 + DigitVal(chars[10])
         IN  IF m \in 1..12 /\ d \in 1..DaysInMonth(y, m)
             THEN [raised |-> "None",
                   ts |-> [nat |-> FALSE, ymd |-> <<y, m, d>>, tod |-> 0]]
             ELSE [raised |-> "ValueError", ts |-> NaT]
    ELSE [raised |-> "ValueError", ts |-> NaT]

\* pd.Timestamp(datetime.date): that day at midnight
Timestamp_from_date(ymd) ==
    [raised |-> "None", ts |-> [nat |-> FALSE, ymd |-> ymd, tod |-> 0]]

\* isinstance(date, datetime.date) in place of the exact type test: a
\* datetime.datetime and a pandas Timestamp are instances of datetime.date
record_date_isinstance(date) ==
    IF date.type \in {"date", "datetime", "Timestamp"}
    THEN Timestamp_from_date(date.ymd)
    ELSE IF date.type = "str" THEN Timestamp_from_str(date.s)
    ELSE [raised |-> "ValueError", ts |-> NaT]

\* the date checks shared by TradeRecord.__init__ and AssetRecord.__init__:
\* the exact type tests, the conversion, the ValueError of the else branch
record_date(date) ==
    IF date.type = "date" THEN Timestamp_from_date(date.ymd)
    ELSE IF date.type = "str" THEN Timestamp_from_str(date.s)
    ELSE [raised |-> "ValueError", ts |-> NaT]

\* TradeRecord(date, action, signal_type, shares): the error raised, if any,
\* and the object built
TradeRecord(date, action, signal_type, shares) ==
    LET c == record_date(date)
    IN  IF c.raised # "None" THEN [raised |-> c.raised, rec |-> NoRecord]
        ELSE [raised |-> "None",
              rec |-> [date |-> c.ts, action |-> action,
                       signal_type |-> signal_type, shares |-> shares]]

\* AssetRecord(date, total_assets)
AssetRecord(date, total_assets) ==
    LET c == record_date(date)
    IN  IF c.raised # "None" THEN [raised |-> c.raised, rec |-> NoRecord]
        ELSE [raised |-> "None",
              rec |-> [date |-> c.ts, total_assets |-> total_assets]]

\* the new record put in front of the list
append_in_front(records, rec) == <<rec>> \o records

\* list.append
append(records, rec) == Append(records, rec)

\* the object of a failed construction appended all the same
add_record_unguarded(records, r) == append(records, r.rec)

\* records.append(Record(...)), lines 14 and 42: the constructor runs first,
\* and when it raises append is never called
add_record(records, r) ==
    IF r.raised = "None" THEN append(records, r.rec) ELSE records

\* the rows without the newest record
transform_to_dataframe_stale(records) ==
    [i \in 1..(Len(records) - 1) |-> records[i]]

\* pd.DataFrame([record.__dict__ for record in records]): one row per record,
\* in list order
transform_to_dataframe(records) == [i \in 1..Len(records) |-> records[i]]

\* the date of the n-th trading period
TickDate(n) == DateValue(2024, 1, 14 + n)

NoRCall == [op |-> "none", date |-> OtherValue("NoneType", 0, 0, 0),
            raised |-> "None"]

NoExport == [of |-> "none", rows |-> <<>>]

----------------------------------------------------------------------------
(* create_log (common/logger.py) and the logging module's handler lists.   *)

\* the names create_log is called with
LogNames == {"commission", "test_strategy", "util_csv"}

Range(f) == {f[i] : i \in DOMAIN f}

\* logging.StreamHandler() and TimedRotatingFileHandler(log_root / name.log)
\* as created for the logger called name
ConsoleHandler(name) == [kind |-> "console", logger |-> name, closed |-> FALSE]

FileHandler(name) == [kind |-> "file", logger |-> name, closed |-> FALSE]

\* lines 18-20: handler.close() for every handler in logger.handlers
close_handlers(pool, attached) ==
    [i \in DOMAIN pool |->
        IF i \in Range(attached) THEN [pool[i] EXCEPT !.closed = TRUE]
        ELSE pool[i]]

\* the old handlers closed but left attached
handlers_after_create_log_no_clear(attached, n) == attached \o <<n + 1, n + 2>>

\* lines 21, 33, 46: logger.handlers after handlers.clear() and the two
\* addHandler calls; n handlers existed before the call
handlers_after_create_log(attached, n) == <<n + 1, n + 2>>

\* the sink a handler writes a message to: the console, or its log file
Sink(h) == [kind |-> h.kind, file |-> IF h.kind = "file" THEN h.logger ELSE "stderr"]

NoEmit == [logger |-> "none", sinks |-> <<>>]

----------------------------------------------------------------------------
(* calculate_holdings (core/visualization/visual_tools_plotly.py).         *)
(* Dates are the positions 1..NDays of df_continuous.index; close prices   *)
(* and capital are in cents.                                               *)

\* the default of the initial_capital parameter
initial_capital == 1000000

\* the rows of valid_trades: trades on dates of the index
HoldingTrades == [date : 1..NDays, action : {"B", "S"}, shares : {100, 300}]

TradeLists == UNION {[1..n -> HoldingTrades] : n \in 0..MaxHoldingTrades}

\* df_continuous['close'], one price per date
CloseSeries == [1..NDays -> {1000, 1250}]

\* holdings never taken below zero
holdings_after_trade_floored(trade, total_holdings) ==
    IF trade.action = "B" THEN total_holdings + trade.shares
    ELSE IF trade.action = "S"
         THEN (IF total_holdings - trade.shares < 0 THEN 0
               ELSE total_holdings - trade.shares)
    ELSE total_holdings

\* lines 164-166 and 171-173: total_holdings after one trade
holdings_after_trade(trade, total_holdings) ==
    IF trade.action = "B" THEN total_holdings + trade.shares
    ELSE IF trade.action = "S" THEN total_holdings - trade.shares
    ELSE total_holdings

\* lines 168-170 and 175-177: capital after one trade at the day's close
capital_after_trade(trade, capital, price) ==
    IF trade.action = "B" THEN capital - trade.shares * price
    ELSE IF trade.action = "S" THEN capital + trade.shares * price
    ELSE capital

\* lines 162-177: the trades of one date applied in row order, from row k on
RECURSIVE day_trades(_, _, _, _, _)
day_trades(trades, k, date, price, st) ==
    IF k > Len(trades) THEN st
    ELSE IF trades[k].date = date
         THEN day_trades(trades, k + 1, date, price,
                         [total_holdings |->
                              holdings_after_trade(trades[k], st.total_holdings),
                          capital |->
                              capital_after_trade(trades[k], st.capital, price)])
    ELSE day_trades(trades, k + 1, date, price, st)

\* lines 160-187: the loop over the dates from date on
RECURSIVE holdings_loop(_, _, _, _, _)
holdings_loop(close, trades, date, st, out) ==
    IF date > Len(close) THEN out
    ELSE LET after == day_trades(trades, 1, date, close[date], st)
             total_assets == after.capital + after.total_holdings * close[date]
         IN  holdings_loop(close, trades, date + 1, after,
                           [holdings |-> Append(out.holdings, after.total_holdings),
                            total_assets |-> Append(out.total_assets, total_assets)])

\* calculate_holdings(df_continuous, valid_trades, initial_capital)
calculate_holdings(close, trades, capital) ==
    holdings_loop(close, trades, 1,
                  [total_holdings |-> 0, capital |-> capital],
                  [holdings |-> <<>>, total_assets |-> <<>>])

NoHCall == [close |-> <<>>, trades |-> <<>>, holdings |-> <<>>,
            total_assets |-> <<>>]

----------------------------------------------------------------------------
(* scrape_trades (x/find_trades.py).                                       *)

\* the keys of config
SupportedTradeTypes == {"stock", "option"}

TradeTypeInputs == {"stock", "option", "future"}

MaxPagesInputs == 0..MaxPagesArg

\* line 100: the stop test after a page was scraped
reached_max_pages(max_pages, page_num) == max_pages > 0 /\ page_num >= max_pages

NoScrape == [pc |-> "idle", trade_type |-> "none", max_pages |-> 0,
             site_pages |-> 0, page_num |-> 0, shown |-> 0, all_data |-> <<>>,
             stop |-> "none", starts |-> 0, quits |-> 0, saved |-> <<>>,
             quits_at_save |-> 0]

NoCall == [size |-> 0, price |-> 0, total |-> MZero]

NoEvent == [op |-> "init", status |-> "None", ordtype |-> "None", id |-> 0,
            size |-> 0, price |-> 0]

Init ==
    /\ market = "none"
    /\ comminfo = "none"
    /\ warnings = 0
    /\ call = NoCall
    /\ prevCall = NoCall
    /\ order = 0
    /\ buy_signals_count = 0
    /\ sell_signals_count = 0
    /\ executed_buys_count = 0
    /\ executed_sells_count = 0
    /\ trade_records = <<>>
    /\ asset_records = <<>>
    /\ orders = <<>>
    /\ ticks = 0
    /\ notifications = 0
    /\ completed = 0
    /\ commission_calls = 0
    /\ event = NoEvent
    /\ rcall = NoRCall
    /\ exported = NoExport
    /\ trade_reports = <<>>
    /\ adds = [trade |-> 0, asset |-> 0]
    /\ log_handlers = [name \in LogNames |-> <<>>]
    /\ handler_pool = <<>>
    /\ emitted = NoEmit
    /\ hcall = NoHCall
    /\ scraper = NoScrape

\* start-up: the broker's commission model is taken from the factory
GetCommission(m) ==
    /\ comminfo = "none"
    /\ market' = m
    /\ comminfo' = get_commission(m).model
    /\ warnings' = IF get_commission(m).warn THEN warnings + 1 ELSE warnings
    /\ UNCHANGED <<call, prevCall>>
    /\ UNCHANGED strategyVars
    /\ UNCHANGED extraVars

\* one call of comminfo._getcommission
CallGetcommission(size, price, pseudoexec) ==
    /\ comminfo # "none"
    /\ call' = [size |-> size, price |-> price,
                total |-> Getcommission(comminfo, size, price, pseudoexec)]
    /\ prevCall' = call
    /\ UNCHANGED <<market, comminfo, warnings>>
    /\ UNCHANGED strategyVars
    /\ UNCHANGED extraVars

----------------------------------------------------------------------------
(* StrategyBase and the broker that notifies it.                           *)

\* executed.size (shares) and executed.price (cents) of a fill
FillSizes == {200}
FillPrices == {10000, 2500}

\* order.isbuy(), order.issell()
isbuy(o) == o.ordtype = "Buy"

issell(o) == o.ordtype = "Sell"

\* the statuses the broker moves an order through, one notification each
NextStatus(s) ==
    CASE s = "Created" -> {"Submitted"}
      [] s = "Submitted" -> {"Accepted", "Margin", "Rejected"}
      [] s = "Accepted" -> {"Partial", "Completed", "Canceled", "Expired", "Margin"}
      [] s = "Partial" -> {"Completed", "Canceled"}
      [] OTHER -> {}

\* the early return taken for Submitted only
returns_early_submitted_only(o) == o.status = "Submitted"

\* notify_order, line 113: the early return
returns_early(o) == o.status \in {"Submitted", "Accepted"}

\* every completed order counted as a buy
executed_buys_after_any_side(o, n) ==
    IF o.status \in {"Submitted", "Accepted"} THEN n
    ELSE IF o.status = "Completed" THEN n + 1 ELSE n

\* partial fills counted as executions as well
executed_buys_after_partial(o, n) ==
    IF o.status \in {"Submitted", "Accepted"} THEN n
    ELSE IF o.status \in {"Partial", "Completed"} /\ o.ordtype = "Buy" THEN n + 1
    ELSE n

\* notify_order, lines 116-124: the executed counters after the call
executed_buys_after(o, n) ==
    IF ~returns_early(o) /\ o.status = "Completed" /\ isbuy(o) THEN n + 1 ELSE n

\* the sell branch an if of its own, without the test of the order's side
executed_sells_after_every_fill(o, n) ==
    IF ~returns_early(o) /\ o.status = "Completed" THEN n + 1 ELSE n

executed_sells_after(o, n) ==
    IF ~returns_early(o) /\ o.status = "Completed" /\ ~isbuy(o) /\ issell(o)
    THEN n + 1 ELSE n

\* notify_order, line 126: whether calculate_commission is called
calculates_commission(o) == ~returns_early(o) /\ o.status = "Completed"

\* self.order cleared only when the order completed
order_after_completed_only(o, cur) ==
    IF o.status = "Completed" THEN 0 ELSE cur

\* self.order cleared for the documented terminal statuses only
order_after_terminal_only(o, cur) ==
    IF o.status \in {"Completed", "Canceled", "Margin", "Rejected"} THEN 0
    ELSE cur

\* notify_order, line 132: self.order after the call
order_after(o, cur) == IF returns_early(o) THEN cur ELSE 0

\* notify_order, lines 111-132: the trade records after the call
trade_records_after(o, recs) == recs

\* StrategyBase.calculate_commission(size, price), as a step on call/prevCall
calculate_commission(size, price) ==
    /\ call' = [size |-> size, price |-> price,
                total |-> Getcommission(comminfo, size, price, FALSE)]
    /\ prevCall' = call
    /\ commission_calls' = commission_calls + 1

\* StrategyBase.notify_order(order): the broker moves order i to status s, with
\* executed size esize and price eprice, and notifies the strategy
NotifyOrder(i, s, esize, eprice) ==
    /\ comminfo # "none"
    /\ i \in DOMAIN orders
    /\ s \in NextStatus(orders[i].status)
    /\ IF s \in {"Partial", "Completed"}
       THEN esize \in FillSizes /\ eprice \in FillPrices
       ELSE esize = 0 /\ eprice = 0
    /\ LET o == [status |-> s, ordtype |-> orders[i].ordtype,
                 size |-> IF orders[i].ordtype = "Buy" THEN esize ELSE -esize,
                 price |-> eprice]
       IN  /\ orders' = [orders EXCEPT ![i].status = s]
           /\ notifications' = notifications + 1
           /\ completed' = IF s = "Completed" THEN completed + 1 ELSE completed
           /\ executed_buys_count' = executed_buys_after(o, executed_buys_count)
           /\ executed_sells_count' = executed_sells_after(o, executed_sells_count)
           /\ IF calculates_commission(o)
              THEN calculate_commission(o.size, o.price)
              ELSE UNCHANGED <<call, prevCall, commission_calls>>
           /\ order' = order_after(o, order)
           /\ trade_records' = trade_records_after(o, trade_records)
           /\ event' = [op |-> "notify_order", status |-> s,
                        ordtype |-> o.ordtype, id |-> i, size |-> o.size,
                        price |-> o.price]
    /\ UNCHANGED <<market, comminfo, warnings, buy_signals_count,
                   sell_signals_count, asset_records, ticks, rcall, exported,
                   trade_reports, adds>>
    /\ UNCHANGED extraVars

\* one trading period of a strategy built on StrategyBase: the asset snapshot
\* is taken, a signal may be generated and counted, and a counted signal may
\* become an order when none is pending
NextTick(signal, submit) ==
    /\ comminfo # "none"
    /\ ticks < MaxTicks
    /\ ticks' = ticks + 1
    /\ asset_records' = add_record(asset_records,
                                   AssetRecord(TickDate(ticks + 1), init_cash))
    /\ adds' = [adds EXCEPT !.asset = @ + 1]
    /\ buy_signals_count' = IF signal = "Buy" THEN buy_signals_count + 1
                                              ELSE buy_signals_count
    /\ sell_signals_count' = IF signal = "Sell" THEN sell_signals_count + 1
                                                ELSE sell_signals_count
    /\ IF submit /\ signal # "None" /\ order = 0 /\ Len(orders) < MaxOrders
       THEN /\ orders' = Append(orders, [status |-> "Created", ordtype |-> signal])
            /\ order' = Len(orders) + 1
       ELSE UNCHANGED <<orders, order>>
    /\ event' = [op |-> "next", status |-> "None", ordtype |-> signal, id |-> 0,
                 size |-> 0, price |-> 0]
    /\ UNCHANGED <<market, comminfo, warnings, call, prevCall,
                   executed_buys_count, executed_sells_count, trade_records,
                   notifications, completed, commission_calls, rcall,
                   exported, trade_reports>>
    /\ UNCHANGED extraVars

\* trade.pnl and trade.pnlcomm of the trades the broker notifies
TradePnls == {[pnl |-> 100, pnlcomm |-> 55]}

\* the profit logged for every notification, closed or not
trade_reports_after_always(trade, reports) ==
    Append(reports, [pnl |-> trade.pnl, pnlcomm |-> trade.pnlcomm])

\* notify_trade, lines 136-139: the log of profit reports after the call
trade_reports_after(trade, reports) ==
    IF ~trade.isclosed THEN reports
    ELSE Append(reports, [pnl |-> trade.pnl, pnlcomm |-> trade.pnlcomm])

\* StrategyBase.notify_trade(trade): the broker notifies the strategy of a
\* trade, which exists once an order was filled
NotifyTrade(isclosed, p) ==
    /\ completed > 0
    /\ isclosed => Len(trade_reports) < MaxTrades
    /\ LET trade == [isclosed |-> isclosed, pnl |-> p.pnl, pnlcomm |-> p.pnlcomm]
       IN  trade_reports' = trade_reports_after(trade, trade_reports)
    /\ event' = [op |-> "notify_trade",
                 status |-> IF isclosed THEN "Closed" ELSE "Open",
                 ordtype |-> "None", id |-> 0, size |-> 0, price |-> 0]
    /\ UNCHANGED <<market, comminfo, warnings, call, prevCall, order,
                   buy_signals_count, sell_signals_count, executed_buys_count,
                   executed_sells_count, trade_records, asset_records, orders,
                   ticks, notifications, completed, commission_calls, rcall,
                   exported, adds>>
    /\ UNCHANGED extraVars

Next ==
    \/ \E m \in Markets : GetCommission(m)
    \/ \E signal \in {"None", "Buy", "Sell"}, submit \in BOOLEAN :
          NextTick(signal, submit)
    \/ \E i \in 1..MaxOrders, s \in {"Submitted", "Accepted", "Partial",
                                     "Completed", "Canceled", "Expired",
                                     "Margin", "Rejected"},
          esize \in FillSizes \cup {0}, eprice \in FillPrices \cup {0} :
          NotifyOrder(i, s, esize, eprice)
    \/ \E isclosed \in BOOLEAN, p \in TradePnls : NotifyTrade(isclosed, p)

Spec == Init /\ [][Next]_vars

NextComm ==
    \/ \E m \in Markets : GetCommission(m)
    \/ \E size \in Sizes, price \in Prices, pseudoexec \in BOOLEAN :
          CallGetcommission(size, price, pseudoexec)

SpecComm == Init /\ [][NextComm]_vars

----------------------------------------------------------------------------
(* The record managers called directly.                                    *)

\* TradeRecordManager.add_signal_record(date, action, signal_type, shares);
\* exported holds a table only while the export is the latest call
AddSignalRecord(date, action, signal_type, shares) ==
    LET r == TradeRecord(date, action, signal_type, shares)
    IN  /\ r.raised = "None" =>
               Len(trade_records) + Len(asset_records) < MaxRecords
        /\ trade_records' = add_record(trade_records, r)
        /\ adds' = IF r.raised = "None" THEN [adds EXCEPT !.trade = @ + 1]
                                        ELSE adds
        /\ exported' = NoExport
        /\ rcall' = [op |-> "add_signal_record", date |-> date,
                     raised |-> r.raised]
        /\ UNCHANGED asset_records
        /\ UNCHANGED nonRecordVars
        /\ UNCHANGED extraVars

\* AssetRecordManager.add_asset_record(date, total_assets)
AddAssetRecord(date, total_assets) ==
    LET r == AssetRecord(date, total_assets)
    IN  /\ r.raised = "None" =>
               Len(trade_records) + Len(asset_records) < MaxRecords
        /\ asset_records' = add_record(asset_records, r)
        /\ adds' = IF r.raised = "None" THEN [adds EXCEPT !.asset = @ + 1]
                                        ELSE adds
        /\ exported' = NoExport
        /\ rcall' = [op |-> "add_asset_record", date |-> date,
                     raised |-> r.raised]
        /\ UNCHANGED trade_records
        /\ UNCHANGED nonRecordVars
        /\ UNCHANGED extraVars

\* TradeRecordManager.transform_to_dataframe()
TradeTransformToDataframe ==
    /\ exported' = [of |-> "trade", rows |-> transform_to_dataframe(trade_records)]
    /\ rcall' = [NoRCall EXCEPT !.op = "transform_to_dataframe"]
    /\ UNCHANGED <<trade_records, asset_records, adds>>
    /\ UNCHANGED nonRecordVars
    /\ UNCHANGED extraVars

\* AssetRecordManager.transform_to_dataframe()
AssetTransformToDataframe ==
    /\ exported' = [of |-> "asset", rows |-> transform_to_dataframe(asset_records)]
    /\ rcall' = [NoRCall EXCEPT !.op = "transform_to_dataframe"]
    /\ UNCHANGED <<trade_records, asset_records, adds>>
    /\ UNCHANGED nonRecordVars
    /\ UNCHANGED extraVars

NextRecords ==
    \/ \E date \in DateInputs, action \in ActionInputs,
          signal_type \in SignalTypeInputs, shares \in SharesInputs :
          AddSignalRecord(date, action, signal_type, shares)
    \/ \E date \in DateInputs, total_assets \in TotalAssetsInputs :
          AddAssetRecord(date, total_assets)
    \/ TradeTransformToDataframe
    \/ AssetTransformToDataframe

SpecRecords == Init /\ [][NextRecords]_vars

----------------------------------------------------------------------------
(* Claims about the commission models, checked under SpecComm.             *)

\* C1: for every size # 0 and price > 0 the HK total is
\* max(value*rate, min_commission) + value*stamp_duty + value*transaction_levy
\* + value*transaction_fee + trading_system_fee
\* + clamp(value*settlement_rate, min_settlement_fee, max_settlement_fee),
\* value = |size|*price: nothing added, nothing omitted.
C1_HKTotalIsSumOfSix ==
    (comminfo = "HKCommission" /\ call # NoCall) =>
        LET value == (IF call.size < 0 THEN -call.size ELSE call.size) * call.price
            clamp(x, lo, hi) == IF MLt(x, lo) THEN lo
                                ELSE IF MLt(hi, x) THEN hi ELSE x
            commission == IF MLt(MulScaled(value, HK_commission), HK_mincommission)
                          THEN HK_mincommission
                          ELSE MulScaled(value, HK_commission)
            settlement == clamp(MulScaled(value, HK_settlement_fee),
                                HK_min_settlement_fee, HK_max_settlement_fee)
        IN  call.total =
                MAdd(commission,
                MAdd(MulScaled(value, HK_stamp_duty),
                MAdd(MulScaled(value, HK_transaction_levy),
                MAdd(MulScaled(value, HK_transaction_fee),
                MAdd(HK_trading_system_fee, settlement)))))

\* a sell of 60000 shares at 100.00 on the HK model: every proportional part is
\* above its floor and the settlement fee is at its cap
C1_Witness ==
    /\ comminfo = "HKCommission"
    /\ call.size = -60000
    /\ call.price = 10000
    /\ call.total = Money(8506, 0)

\* C7: get_commission returns the HK model for "HK", the US model for "US", the
\* CN model for "CN"; for any other identifier ("JP", "hk") it still returns a
\* model, logs a warning, and that model's cost equals the HK model's for every
\* (size, price).
C7_FactoryFallsBackToHK ==
    (comminfo # "none") =>
        /\ comminfo \in {"HKCommission", "USCommission", "CNCommission"}
        /\ market = "HK" => comminfo = "HKCommission"
        /\ market = "US" => comminfo = "USCommission"
        /\ market = "CN" => comminfo = "CNCommission"
        /\ market \notin {"HK", "US", "CN"} =>
              /\ warnings = 1
              /\ call # NoCall =>
                    call.total = HK_getcommission(call.size, call.price, FALSE)

\* the factory was asked for "hk" and the model it returned priced 200 shares
\* at 100.00
C7_Witness ==
    /\ market = "hk"
    /\ warnings = 1
    /\ call.size = 200
    /\ call.price = 10000
    /\ call.total = Money(44, 970000000)

\* C8: for all size # 0 and price > 0 the HK total is at least
\* min_commission + trading_system_fee + min_settlement_fee (3 + 15 + 2 = 20).
C8_HKTotalAtLeastFloors ==
    (comminfo = "HKCommission" /\ call # NoCall) =>
        /\ MLeq(MAdd(MAdd(HK_mincommission, HK_trading_system_fee),
                     HK_min_settlement_fee), call.total)
        /\ MLeq(Money(20, 0), call.total)

\* one share at 0.01 on the HK model: commission and settlement fee are both at
\* their floors
C8_Witness ==
    /\ comminfo = "HKCommission"
    /\ call.size = 1
    /\ call.price = 1
    /\ MLt(call.total, Money(21, 0))

\* C9: for each of the HK, CN and US models and every (size, price), the total
\* for size equals the total for -size.
C9_TotalIgnoresDirection ==
    (call # NoCall /\ prevCall # NoCall /\ call.price = prevCall.price
        /\ call.size = -prevCall.size) =>
        call.total = prevCall.total

\* a buy of 1000 shares at 100.00 followed by a sell of the same on the CN model
C9_Witness ==
    /\ comminfo = "CNCommission"
    /\ prevCall.size = 1000
    /\ call.size = -1000
    /\ prevCall.price = 10000
    /\ call.price = 10000

\* C10 as stated: for each model (HK, CN, US) and all trades with size # 0 and
\* price > 0, the total is >= 0 and non-decreasing in trade value: whenever
\* |s1|*p1 <= |s2|*p2, total(s1, p1) <= total(s2, p2).
C10_MonotoneInValueAllModels ==
    /\ call # NoCall => MLeq(MZero, call.total)
    /\ (call # NoCall /\ prevCall # NoCall
          /\ Abs(prevCall.size) * prevCall.price <= Abs(call.size) * call.price) =>
          MLeq(prevCall.total, call.total)

\* C10 amended: for each model the total is >= 0; for the HK and the CN model it
\* is non-decreasing in trade value; the US total is priced per share and is
\* not a function of trade value.
C10_MonotoneInValueHKCN ==
    /\ call # NoCall => MLeq(MZero, call.total)
    /\ (comminfo \in {"HKCommission", "CNCommission"}
          /\ call # NoCall /\ prevCall # NoCall
          /\ Abs(prevCall.size) * prevCall.price <= Abs(call.size) * call.price) =>
          MLeq(prevCall.total, call.total)

\* on the HK model, a trade of lower value priced before one of higher value,
\* the first at its floors and the second above them
C10_Witness ==
    /\ comminfo = "HKCommission"
    /\ prevCall.size = 200 /\ prevCall.price = 2500
    /\ call.size = -1000 /\ call.price = 10000
    /\ MLt(prevCall.total, call.total)

----------------------------------------------------------------------------
(* Claims about StrategyBase.notify_order, checked under Spec.             *)

\* C2: when an order reaches Completed, notify_order appends a TradeRecord to
\* the strategy's trade record list, so after any sequence of notifications
\* the number of trade records equals the number of Completed notifications.
C2_RecordPerCompleted == Len(trade_records) = completed

\* C3: on every Completed notification notify_order increments exactly one
\* executed counter by exactly 1 (buys for a buy order, sells for a sell order,
\* the other unchanged) and calls the commission calculation once with the
\* fill's signed executed size and executed price.
C3_CompletedCountsOnceAndPrices ==
    [][(notifications' = notifications + 1 /\ event'.status = "Completed") =>
        /\ event'.ordtype = "Buy" =>
              /\ executed_buys_count' = executed_buys_count + 1
              /\ executed_sells_count' = executed_sells_count
              /\ event'.size > 0
        /\ event'.ordtype = "Sell" =>
              /\ executed_sells_count' = executed_sells_count + 1
              /\ executed_buys_count' = executed_buys_count
              /\ event'.size < 0
        /\ event'.ordtype \in {"Buy", "Sell"}
        /\ commission_calls' = commission_calls + 1
        /\ call'.size = event'.size
        /\ call'.price = event'.price
        /\ prevCall' = call]_vars

\* a sell order completed as the second execution, after a buy
C3_Witness ==
    /\ event.op = "notify_order"
    /\ event.status = "Completed"
    /\ event.ordtype = "Sell"
    /\ executed_sells_count = 1
    /\ executed_buys_count = 1
    /\ commission_calls = 2
    /\ call.size = -200

\* C4: a notification with status Canceled, Margin or Rejected appends no trade
\* record, computes no commission, leaves both executed counters and both
\* signal counters unchanged, and only sets the pending-order reference to None.
C4_TerminalFailureOnlyClearsOrder ==
    [][(notifications' = notifications + 1
          /\ event'.status \in {"Canceled", "Margin", "Rejected"}) =>
        /\ order' = 0
        /\ UNCHANGED <<trade_records, asset_records, commission_calls, call,
                       prevCall, executed_buys_count, executed_sells_count,
                       buy_signals_count, sell_signals_count>>]_vars

\* the pending order was rejected: the reference it occupied is None again
C4_Witness ==
    /\ event.op = "notify_order"
    /\ event.status = "Rejected"
    /\ event.id = Len(orders)
    /\ order = 0
    /\ buy_signals_count + sell_signals_count > 0

\* C5: a notification with status Submitted or Accepted is a no-op: the
\* pending-order reference, the executed and signal counters and the trade and
\* asset record lists are unchanged (and the call returns normally).
C5_SubmittedAcceptedNoOp ==
    [][(notifications' = notifications + 1
          /\ event'.status \in {"Submitted", "Accepted"}) =>
        UNCHANGED <<order, executed_buys_count, executed_sells_count,
                    buy_signals_count, sell_signals_count, trade_records,
                    asset_records, commission_calls, call, prevCall>>]_vars

\* the pending order was accepted and is still the pending order
C5_Witness ==
    /\ event.op = "notify_order"
    /\ event.status = "Accepted"
    /\ order = event.id
    /\ order # 0
    /\ Len(asset_records) > 0

----------------------------------------------------------------------------
(* Claims about the components of the fee schedules, checked under         *)
(* SpecComm.                                                               *)

\* C11 as stated: in the US model the commission component never exceeds
\* value * max_commission_rate, value = |size|*price, for every size # 0 and
\* price > 0, trades whose per-share amount lies below min_commission included.
C11_USCommissionNeverAboveCap ==
    (comminfo = "USCommission" /\ call # NoCall) =>
        MLeq(US_commission_part(call.size, call.price),
             MulScaled(Abs(call.size) * call.price, US_max_commission_rate))

\* C11 amended: in the US model the commission component never exceeds
\* value * max_commission_rate whenever the per-share amount
\* |size| * commission_per_share is at least min_commission; below it the
\* component is min_commission, cap or no cap.
C11_USCommissionCappedAboveFloor ==
    (comminfo = "USCommission" /\ call # NoCall) =>
        LET perShare == MulScaled(Abs(call.size), US_commission_per_share)
            cap == MulScaled(Abs(call.size) * call.price, US_max_commission_rate)
            part == US_commission_part(call.size, call.price)
        IN  /\ MLeq(US_min_commission, perShare) => MLeq(part, cap)
            /\ MLt(perShare, US_min_commission) => part = US_min_commission

\* 1000 shares at 0.01 on the US model: the per-share amount 4.90 is above the
\* floor and above the cap 0.05, and the cap is charged
C11_Witness ==
    /\ comminfo = "USCommission"
    /\ call.size = 1000
    /\ call.price = 1
    /\ US_commission_part(call.size, call.price) = Money(0, 50000000)

\* C12: in the US model, whenever |size| * commission_per_share is below
\* min_commission (e.g. size = 1, price = 0.01) the commission component is
\* exactly min_commission (0.99), not the per-share product, not the cap.
C12_USCommissionFloor ==
    (comminfo = "USCommission" /\ call # NoCall
        /\ MLt(MulScaled(Abs(call.size), US_commission_per_share),
               US_min_commission)) =>
        /\ US_commission_part(call.size, call.price) = US_min_commission
        /\ US_commission_part(call.size, call.price) = Money(0, 990000000)

\* one share at 0.01 on the US model: per-share product 0.0049, cap 0.00005,
\* and the total 0.99 + 1 + 0.005 + 0.0000265
C12_Witness ==
    /\ comminfo = "USCommission"
    /\ call.size = 1
    /\ call.price = 1
    /\ call.total = Money(1, 995026500)

\* C13: in the US model the settlement activity fee lies within
\* [min_settlement_activity_fee, max_settlement_activity_fee], and the total is
\* exactly commission + trading system fee + settlement activity fee + the
\* fixed audit fee: the proportional settlement_fee parameter adds nothing.
C13_USTotalIsSumOfFour ==
    (comminfo = "USCommission" /\ call # NoCall) =>
        LET activity == US_settlement_activity_part(call.size)
        IN  /\ MLeq(US_min_settlement_activity_fee, activity)
            /\ MLeq(activity, US_max_settlement_activity_fee)
            /\ call.total =
                  MAdd(US_commission_part(call.size, call.price),
                  MAdd(US_trading_system_part(call.size, call.price),
                  MAdd(activity, US_comprehensive_audit_supervision_fee)))

\* 60000 shares at 100.00 on the US model: the activity fee 9.96 is cut to 8.30
C13_Witness ==
    /\ comminfo = "USCommission"
    /\ call.size = -60000
    /\ call.price = 10000
    /\ US_settlement_activity_part(call.size) = US_max_settlement_activity_fee
    /\ call.total = Money(602, 300026500)

\* C14: in the HK model the settlement fee component lies within
\* [min_settlement_fee, max_settlement_fee]: a trade whose value*settlement_rate
\* exceeds the maximum contributes exactly the maximum, one below the minimum
\* exactly the minimum.
C14_HKSettlementClamped ==
    (comminfo = "HKCommission" /\ call # NoCall) =>
        LET value == Abs(call.size) * call.price
            others == MAdd(MMax(MulScaled(value, HK_commission), HK_mincommission),
                      MAdd(MulScaled(value, HK_stamp_duty),
                      MAdd(MulScaled(value, HK_transaction_levy),
                      MAdd(MulScaled(value, HK_transaction_fee),
                           HK_trading_system_fee))))
            raw == MulScaled(value, HK_settlement_fee)
        IN  /\ MLeq(MAdd(others, HK_min_settlement_fee), call.total)
            /\ MLeq(call.total, MAdd(others, HK_max_settlement_fee))
            /\ MLt(HK_max_settlement_fee, raw) =>
                  call.total = MAdd(others, HK_max_settlement_fee)
            /\ MLt(raw, HK_min_settlement_fee) =>
                  call.total = MAdd(others, HK_min_settlement_fee)

\* a buy of 60000 shares at 100.00 on the HK model: value * settlement_rate is
\* 120, above the maximum of 100
C14_Witness ==
    /\ comminfo = "HKCommission"
    /\ call.size = 60000
    /\ call.price = 10000
    /\ MLt(HK_max_settlement_fee,
           MulScaled(Abs(call.size) * call.price, HK_settlement_fee))

\* C15: the CN model has the six components of the HK model (commission with
\* its floor, stamp duty, transaction levy, transaction fee, fixed per-order
\* fee, settlement fee), but its settlement fee is exactly
\* value*settlement_rate, without floor or cap, however small or large the
\* trade value.
C15_CNSettlementUnclamped ==
    (comminfo = "CNCommission" /\ call # NoCall) =>
        LET value == Abs(call.size) * call.price
        IN  call.total =
                MAdd(MMax(MulScaled(value, CN_commission), CN_mincommission),
                MAdd(MulScaled(value, CN_stamp_duty),
                MAdd(MulScaled(value, CN_transaction_levy),
                MAdd(MulScaled(value, CN_transaction_fee),
                MAdd(CN_trading_system_fee,
                     MulScaled(value, CN_settlement_fee))))))

\* one share at 0.01 on the CN model: the settlement fee is 0.0000002, far
\* below the floor the HK model would apply
C15_Witness ==
    /\ comminfo = "CNCommission"
    /\ call.size = 1
    /\ call.price = 1
    /\ MLt(call.total, Money(18, 1000000))

----------------------------------------------------------------------------
(* The end-to-end scenario, checked under Spec.                            *)

----------------------------------------------------------------------------
(* Claims about the record managers, checked under SpecRecords.            *)

\* the calls that create a record
IsAdd == rcall.op \in {"add_signal_record", "add_asset_record"}

\* the records of the list the latest call works on
RecordsOfCall ==
    IF rcall.op = "add_signal_record" THEN trade_records ELSE asset_records

\* the strings that denote a calendar date, each with the date it denotes
Denotes == { <<S_2024_01_15, <<2024, 1, 15>>>>,
             <<S_2024_02_29, <<2024, 2, 29>>>> }

\* date is a date value (of any of the date types) or a string that denotes one
IsDateOrParseable(date) ==
    \/ date.type \in {"date", "datetime", "Timestamp"}
    \/ date.type = "str" /\ \E p \in Denotes : p[1] = date.s

\* C17: creating a trade record or an asset record with a date that is
\* neither a date value nor a string parseable to a timestamp fails with an
\* error and stores no record.
C17_InvalidDateRejected ==
    (IsAdd /\ ~IsDateOrParseable(rcall.date)) => rcall.raised # "None"

\* C18: a date string and the date value it denotes normalize to the same
\* stored timestamp: a record added with either one is stored, and its date
\* is the denoted day at midnight.
C18_StringAndDateNormalizeEqual ==
    IsAdd =>
        \A p \in Denotes :
            (\/ rcall.date = StrValue(p[1])
             \/ rcall.date = DateValue(p[2][1], p[2][2], p[2][3]))
            => /\ rcall.raised = "None"
               /\ Len(RecordsOfCall) > 0
               /\ RecordsOfCall[Len(RecordsOfCall)].date
                      = [nat |-> FALSE, ymd |-> p[2], tod |-> 0]

\* two trade records with one stored date, the newer one added from the
\* string "2024-01-15"
C18_Witness ==
    /\ rcall.op = "add_signal_record"
    /\ rcall.raised = "None"
    /\ rcall.date = StrValue(S_2024_01_15)
    /\ Len(trade_records) = 2
    /\ trade_records[1].date = trade_records[2].date
    /\ trade_records[1].date = TradeRecord(DateValue(2024, 1, 15), "B",
                                           "normal_buy", 200).rec.date

\* C19: the trade and asset record lists are append-only: every successful
\* add makes its list exactly one longer, the records stored before keep
\* their positions and field values, and transform_to_dataframe lists the
\* records in insertion order.
C19_AppendOnlyInOrder ==
    [][ /\ Len(trade_records') >= Len(trade_records)
        /\ SubSeq(trade_records', 1, Len(trade_records)) = trade_records
        /\ Len(asset_records') >= Len(asset_records)
        /\ SubSeq(asset_records', 1, Len(asset_records)) = asset_records
        /\ (rcall'.op = "add_signal_record" /\ rcall'.raised = "None")
               => Len(trade_records') = Len(trade_records) + 1
        /\ (rcall'.op = "add_asset_record" /\ rcall'.raised = "None")
               => Len(asset_records') = Len(asset_records) + 1
        /\ exported'.of = "trade" => exported'.rows = trade_records'
        /\ exported'.of = "asset" => exported'.rows = asset_records'
      ]_vars

\* an export of two different trade records
C19_Witness ==
    /\ exported.of = "trade"
    /\ Len(trade_records) = 2
    /\ trade_records[1] # trade_records[2]
    /\ exported.rows = trade_records

\* C20: every trade record stored has a Buy or Sell action and a positive
\* number of shares.
C20_StoredTradesWellFormed ==
    \A i \in DOMAIN trade_records :
        /\ trade_records[i].action \in {"B", "S", "Buy", "Sell"}
        /\ trade_records[i].shares > 0

----------------------------------------------------------------------------
(* Further claims about StrategyBase, checked under Spec.                  *)

\* the strategy's own state: everything notify_trade could touch but the log
StrategyState ==
    <<order, buy_signals_count, sell_signals_count, executed_buys_count,
      executed_sells_count, trade_records, asset_records>>

\* C21: notify_trade reports the gross and net profit only for a trade whose
\* isclosed flag is true; for an open trade it reports nothing; in either
\* case it changes no strategy state.
C21_ReportOnlyWhenClosed ==
    [][ event'.op = "notify_trade" =>
          /\ StrategyState' = StrategyState
          /\ event'.status = "Open" => trade_reports' = trade_reports
          /\ event'.status = "Closed" =>
                 /\ Len(trade_reports') = Len(trade_reports) + 1
                 /\ SubSeq(trade_reports', 1, Len(trade_reports)) = trade_reports
                 /\ trade_reports'[Len(trade_reports')] \in TradePnls
      ]_vars

\* a notification for an open trade, after one for a closed trade, while an
\* order is pending
C21_Witness ==
    /\ event.op = "notify_trade"
    /\ event.status = "Open"
    /\ Len(trade_reports) = 1
    /\ order # 0

\* C23: notify_order clears self.order for every status other than Submitted
\* and Accepted, Partial and Expired included: after a partial-fill
\* notification the strategy holds no pending order although the order is
\* still live at the broker.
C23_EveryOtherStatusClearsOrder ==
    event.op = "notify_order" =>
        /\ event.status \notin {"Submitted", "Accepted"} => order = 0
        /\ event.status = "Partial" =>
               /\ orders[event.id].status = "Partial"
               /\ NextStatus(orders[event.id].status) # {}

\* a partial fill of the pending order has just been notified
C23_Witness ==
    /\ event.op = "notify_order"
    /\ event.status = "Partial"
    /\ order = 0
    /\ orders[event.id].status = "Partial"
    /\ "Completed" \in NextStatus(orders[event.id].status)

\* C24: executed_buys_count + executed_sells_count equals the number of
\* Completed notifications received (every order is a buy or a sell); both
\* counters start at 0, never decrease, and change in no operation other
\* than a Completed order notification.
C24_ExecutedSumIsCompleted ==
    /\ executed_buys_count = 0 /\ executed_sells_count = 0
    /\ [](executed_buys_count + executed_sells_count = completed)
    /\ [][ /\ executed_buys_count' >= executed_buys_count
           /\ executed_sells_count' >= executed_sells_count
           /\ (\/ executed_buys_count' # executed_buys_count
               \/ executed_sells_count' # executed_sells_count)
              => (event'.op = "notify_order" /\ event'.status = "Completed")
         ]_vars

\* one buy and one sell completed, and notifications of other statuses and
\* of a trade received as well
C24_Witness ==
    /\ executed_buys_count = 1
    /\ executed_sells_count = 1
    /\ completed = 2
    /\ notifications > completed
    /\ event.op = "notify_trade"

----------------------------------------------------------------------------
(* Further claims about the record managers, checked under SpecRecords.    *)

\* date arguments the constructors reject
RejectedDates ==
    { OtherValue("int", 0, 0, 0), OtherValue("NoneType", 0, 0, 0),
      StrValue(S_not_a_date), StrValue(S_2024_02_30) }

\* C25: when add_signal_record or add_asset_record is called with a date the
\* constructor rejects, the caller gets the error and the manager's list is
\* left exactly as it was; no partially built record is ever in a list.
C25_FailedAddLeavesListUnchanged ==
    /\ []((IsAdd /\ rcall.date \in RejectedDates) => rcall.raised = "ValueError")
    /\ [](/\ \A i \in DOMAIN trade_records :
                DOMAIN trade_records[i]
                    = {"date", "action", "signal_type", "shares"}
          /\ \A i \in DOMAIN asset_records :
                DOMAIN asset_records[i] = {"date", "total_assets"})
    /\ [][ (rcall'.op \in {"add_signal_record", "add_asset_record"}
            /\ rcall'.raised # "None")
           => /\ trade_records' = trade_records
              /\ asset_records' = asset_records
              /\ adds' = adds
         ]_vars

\* an add that failed on a manager already holding a record
C25_Witness ==
    /\ rcall.op = "add_signal_record"
    /\ rcall.raised = "ValueError"
    /\ rcall.date = StrValue(S_not_a_date)
    /\ Len(trade_records) = 1

\* C26: only a value whose type is exactly datetime.date or exactly str is
\* accepted as a record date: a datetime.datetime or a pandas Timestamp is
\* rejected with the error a non-date value gets.
C26_ExactTypeOnly ==
    IsAdd =>
        /\ rcall.date.type \in {"datetime", "Timestamp"}
               => /\ rcall.raised # "None"
                  /\ rcall.raised = record_date(OtherValue("int", 0, 0, 0)).raised
        /\ rcall.raised = "None" => rcall.date.type \in {"date", "str"}

\* a pandas Timestamp refused as the date of an asset record
C26_Witness ==
    /\ rcall.op = "add_asset_record"
    /\ rcall.date = OtherValue("Timestamp", 2024, 1, 15)
    /\ rcall.raised = "ValueError"

\* C27: transform_to_dataframe leaves the manager's list unchanged, returns
\* as many rows as successful adds were made, and returns the same table
\* again when no add was made since the previous export.
C27_ExportLeavesListUnchanged ==
    [][ rcall'.op = "transform_to_dataframe" =>
          /\ trade_records' = trade_records
          /\ asset_records' = asset_records
          /\ adds' = adds
          /\ exported'.of = "trade" => Len(exported'.rows) = adds.trade
          /\ exported'.of = "asset" => Len(exported'.rows) = adds.asset
          /\ exported'.of = exported.of => exported'.rows = exported.rows
      ]_vars

\* an export of the trade records after two successful adds and a failed one
C27_Witness ==
    /\ rcall.op = "transform_to_dataframe"
    /\ exported.of = "trade"
    /\ adds.trade = 2
    /\ Len(exported.rows) = 2

----------------------------------------------------------------------------
(* create_log and the loggers it configures.                               *)

\* everything but the logging state
nonLogVars == <<market, comminfo, warnings, call, prevCall, order,
                buy_signals_count, sell_signals_count, executed_buys_count,
                executed_sells_count, trade_records, asset_records, orders,
                ticks, notifications, completed, commission_calls, event,
                rcall, exported, trade_reports, adds, hcall, scraper>>

\* create_log(name)
CreateLog(name) ==
    /\ Len(handler_pool) < 2 * MaxLogCalls
    /\ handler_pool' = close_handlers(handler_pool, log_handlers[name])
                           \o <<ConsoleHandler(name), FileHandler(name)>>
    /\ log_handlers' =
           [log_handlers EXCEPT
               ![name] = handlers_after_create_log(@, Len(handler_pool))]
    /\ UNCHANGED emitted
    /\ UNCHANGED nonLogVars

\* logger.info(msg) on the logger create_log(name) returned: every attached
\* handler emits the record; the root logger has no handler
LoggerInfo(name) ==
    /\ log_handlers[name] # <<>>
    /\ emitted' = [logger |-> name,
                   sinks |-> [i \in DOMAIN log_handlers[name] |->
                                 Sink(handler_pool[log_handlers[name][i]])]]
    /\ UNCHANGED <<log_handlers, handler_pool>>
    /\ UNCHANGED nonLogVars

NextLog ==
    \/ \E name \in LogNames : CreateLog(name)
    \/ \E name \in LogNames : LoggerInfo(name)

SpecLog == Init /\ [][NextLog]_vars

\* C28: after any number of create_log calls with one name the named logger
\* carries exactly two handlers, one console and one rotating file, both
\* open; every handler attached to it before is closed and removed; a
\* message is written once to each sink, never twice.
C28_TwoHandlersNoDuplicates ==
    /\ \A name \in LogNames :
          log_handlers[name] # <<>> =>
              /\ Len(log_handlers[name]) = 2
              /\ handler_pool[log_handlers[name][1]]
                     = ConsoleHandler(name)
              /\ handler_pool[log_handlers[name][2]] = FileHandler(name)
              /\ \A i \in DOMAIN handler_pool :
                    (handler_pool[i].logger = name
                     /\ i \notin Range(log_handlers[name]))
                    => handler_pool[i].closed
    /\ emitted # NoEmit =>
          /\ Len(emitted.sinks) = 2
          /\ Cardinality(Range(emitted.sinks)) = Len(emitted.sinks)

\* a message logged after create_log was called twice with one name
C28_Witness ==
    /\ emitted.logger = "test_strategy"
    /\ Cardinality({i \in DOMAIN handler_pool :
                       handler_pool[i].logger = "test_strategy"}) = 4
    /\ Cardinality({i \in DOMAIN handler_pool :
                       handler_pool[i].logger = "test_strategy"
                       /\ handler_pool[i].closed}) = 2
    /\ Len(log_handlers["test_strategy"]) = 2

----------------------------------------------------------------------------
(* calculate_holdings called on bounded inputs.                            *)

\* everything but the latest calculate_holdings call
nonHoldingsVars == <<market, comminfo, warnings, call, prevCall, order,
                     buy_signals_count, sell_signals_count,
                     executed_buys_count, executed_sells_count, trade_records,
                     asset_records, orders, ticks, notifications, completed,
                     commission_calls, event, rcall, exported, trade_reports,
                     adds, log_handlers, handler_pool, emitted, scraper>>

\* one call of calculate_holdings, with the default initial_capital
CalculateHoldings(close, trades) ==
    /\ hcall = NoHCall
    /\ LET out == calculate_holdings(close, trades, initial_capital * 100)
       IN  hcall' = [close |-> close, trades |-> trades,
                     holdings |-> out.holdings,
                     total_assets |-> out.total_assets]
    /\ UNCHANGED nonHoldingsVars

NextHoldings ==
    /\ hcall = NoHCall
    /\ \E close \in CloseSeries, trades \in TradeLists :
          CalculateHoldings(close, trades)

SpecHoldings == Init /\ [][NextHoldings]_vars

\* the shares of the trades with the given action dated on or before date
RECURSIVE SharesUpTo(_, _, _, _)
SharesUpTo(trades, k, date, action) ==
    IF k = 0 THEN 0
    ELSE SharesUpTo(trades, k - 1, date, action)
         + (IF trades[k].date <= date /\ trades[k].action = action
            THEN trades[k].shares ELSE 0)

\* C29: the holdings calculate_holdings reports for a date are the shares of
\* all 'B' trades minus the shares of all 'S' trades dated on or before it,
\* negative when the sells exceed the buys; with a constant close price
\* total_assets is initial_capital on every date.
C29_HoldingsAreNetShares ==
    hcall # NoHCall =>
        /\ Len(hcall.holdings) = NDays
        /\ Len(hcall.total_assets) = NDays
        /\ \A date \in 1..NDays :
               hcall.holdings[date]
                   = SharesUpTo(hcall.trades, Len(hcall.trades), date, "B")
                     - SharesUpTo(hcall.trades, Len(hcall.trades), date, "S")
        /\ (\A d1, d2 \in 1..NDays : hcall.close[d1] = hcall.close[d2])
               => \A date \in 1..NDays :
                      hcall.total_assets[date] = initial_capital * 100

\* a sell of 300 before a buy of 100, at a constant close: holdings below
\* zero on the last date, total assets unchanged
C29_Witness ==
    /\ hcall # NoHCall
    /\ Len(hcall.trades) = 2
    /\ hcall.holdings[1] = -300
    /\ hcall.holdings[NDays] = -200
    /\ \A date \in 1..NDays : hcall.close[date] = 1000
    /\ hcall.total_assets[NDays] = initial_capital * 100

----------------------------------------------------------------------------
(* scrape_trades, step by step, against a site of site_pages pages.        *)

\* everything but the scraper
nonScraperVars == <<market, comminfo, warnings, call, prevCall, order,
                    buy_signals_count, sell_signals_count,
                    executed_buys_count, executed_sells_count, trade_records,
                    asset_records, orders, ticks, notifications, completed,
                    commission_calls, event, rcall, exported, trade_reports,
                    adds, log_handlers, handler_pool, emitted, hcall>>

\* lines 31-51: the call, the test of trade_type, the browser started
ScrapeTrades(trade_type, max_pages, site_pages) ==
    /\ scraper.pc = "idle"
    /\ scraper' =
           IF trade_type \notin SupportedTradeTypes
           THEN [scraper EXCEPT !.pc = "returned", !.trade_type = trade_type,
                                !.max_pages = max_pages]
           ELSE [scraper EXCEPT !.pc = "get", !.trade_type = trade_type,
                                !.max_pages = max_pages,
                                !.site_pages = site_pages, !.starts = @ + 1]
    /\ UNCHANGED nonScraperVars

\* lines 54-60: driver.get(url), outside the try statement: when it raises
\* the exception leaves scrape_trades
DriverGet(ok) ==
    /\ scraper.pc = "get"
    /\ scraper' =
           IF ok THEN [scraper EXCEPT !.pc = "scrape", !.page_num = 1,
                                      !.shown = 1]
           ELSE [scraper EXCEPT !.pc = "raised"]
    /\ UNCHANGED nonScraperVars

\* lines 64-102: one page scraped, or the scrape failing, and the stop test
ScrapePage(ok) ==
    /\ scraper.pc = "scrape"
    /\ scraper' =
           IF ~ok
           THEN [scraper EXCEPT !.pc = "finally", !.stop = "scrape_failed"]
           ELSE IF reached_max_pages(scraper.max_pages, scraper.page_num)
           THEN [scraper EXCEPT !.pc = "finally", !.stop = "max_pages",
                                !.all_data = Append(@, scraper.shown)]
           ELSE [scraper EXCEPT !.pc = "turn",
                                !.all_data = Append(@, scraper.shown)]
    /\ UNCHANGED nonScraperVars

\* lines 105-132: the next-page button looked up and clicked; it can be
\* clicked only when the site has a further page, and is disabled only on
\* the last one
TurnPage(button) ==
    /\ scraper.pc = "turn"
    /\ button = "clickable" => scraper.shown < scraper.site_pages
    /\ button = "disabled" => scraper.shown = scraper.site_pages
    /\ scraper' =
           IF button = "clickable"
           THEN [scraper EXCEPT !.pc = "scrape", !.page_num = @ + 1,
                                !.shown = @ + 1]
           ELSE [scraper EXCEPT !.pc = "finally", !.stop = button]
    /\ UNCHANGED nonScraperVars

\* lines 134-135: finally: driver.quit()
DriverQuit ==
    /\ scraper.pc = "finally"
    /\ scraper' = [scraper EXCEPT !.pc = "save", !.quits = @ + 1]
    /\ UNCHANGED nonScraperVars

\* lines 138-152: the pages collected written to the CSV file
SaveData(ok) ==
    /\ scraper.pc = "save"
    /\ scraper' =
           IF scraper.all_data # <<>> /\ ok
           THEN [scraper EXCEPT !.pc = "done", !.saved = scraper.all_data,
                                !.quits_at_save = scraper.quits]
           ELSE [scraper EXCEPT !.pc = "done"]
    /\ UNCHANGED nonScraperVars

NextScrape ==
    \/ \E trade_type \in TradeTypeInputs, max_pages \in MaxPagesInputs,
          site_pages \in 1..MaxSitePages :
          ScrapeTrades(trade_type, max_pages, site_pages)
    \/ \E ok \in BOOLEAN : DriverGet(ok)
    \/ \E ok \in BOOLEAN : ScrapePage(ok)
    \/ \E button \in {"clickable", "disabled", "missing"} : TurnPage(button)
    \/ DriverQuit
    \/ \E ok \in BOOLEAN : SaveData(ok)

SpecScrape == Init /\ [][NextScrape]_vars

\* C30: scrape_trades collects the pages in increasing order from 1; with
\* max_pages = N > 0 it collects at most N pages; with max_pages = 0 it
\* stops only on a disabled or missing next-page button or a failed scrape;
\* an unsupported trade_type starts no browser; once the browser is started
\* the driver is quit exactly once on every exit path, before data is saved.
C30_ScrapeContract ==
    /\ \A i \in DOMAIN scraper.all_data : scraper.all_data[i] = i
    /\ scraper.max_pages > 0 => Len(scraper.all_data) <= scraper.max_pages
    /\ (scraper.max_pages = 0 /\ scraper.stop # "none")
           => scraper.stop \in {"disabled", "missing", "scrape_failed"}
    /\ (scraper.pc # "idle" /\ scraper.trade_type \notin SupportedTradeTypes)
           => (scraper.starts = 0 /\ scraper.pc = "returned")
    /\ scraper.quits <= 1
    /\ (scraper.pc \in {"done", "raised", "returned"} /\ scraper.starts > 0)
           => scraper.quits = 1
    /\ scraper.saved # <<>> => scraper.quits_at_save = 1

=============================================================================
